---- MODULE Spec2Model ----
(***************************************************************************)
(* Model of src/app.py: a Telegram bot that gates a disposable-email       *)
(* service (mail.tm) behind membership of a channel.                       *)
(*                                                                         *)
(* The database (tables 'users' and 'emails') is shared by the workflow    *)
(* instances.  Each instance runs one handler at a time (the Application   *)
(* is built without concurrent_updates), and the handlers of different     *)
(* instances interleave at their database statements and external calls.   *)
(*                                                                         *)
(* src/app.py:80-82 leaves the reply_text( call of start unclosed; the     *)
(* model reads the call as closed after its reply_markup argument, which   *)
(* is the only reading under which the handlers run at all.                *)
(***************************************************************************)
EXTENDS Integers, Sequences, FiniteSets, TLC

(* ---------------------------------------------------------------- bounds *)
\* the transport delivers at most MaxUpdates updates
MaxUpdates == 3

(* ------------------------------------------------------- the environment *)
\* the workflow instances that share the database
Instances == {"i1", "i2"}
\* the telegram ids of the users that send updates
TelegramIds == {1, 2}
\* str(update.effective_user.id)
Str(n) == CASE n = 1 -> "1" [] n = 2 -> "2" [] n = 3 -> "3" [] OTHER -> "?"
\* ADMIN_ID = os.environ.get('ADMIN_ID'): the configured operator, a string
ADMIN_ID == "2"
\* what get_chat_member answers: member.status, or "error" when it raises
ChatMemberStatuses == {"member", "administrator", "left", "error"}
\* the letters random.choice draws from, sampled out of string.ascii_lowercase
SampleLetters == {"a", "b"}
\* the domains mail.tm lists, as strings of characters
DomainX == <<"x", ".", "i", "o">>
DomainY == <<"y", ".", "i", "o">>
\* what GET /domains answers: the 'hydra:member' list, or a failure of the
\* request or of its JSON (raised), or nothing at all: requests.get is called
\* without a timeout and then does not return (hung)
DomainResponses ==
    { [raised |-> FALSE, hung |-> FALSE, member |-> <<DomainY, DomainX>>],
      [raised |-> FALSE, hung |-> FALSE, member |-> <<>>],
      [raised |-> TRUE, hung |-> FALSE, member |-> <<>>],
      [raised |-> FALSE, hung |-> TRUE, member |-> <<>>] }
\* requests.post is called without a timeout: the provider never answers
NoAnswer == -1
\* the status codes POST /accounts answers (0: requests.post raises)
StatusCodes == {201, 422, 0, NoAnswer}
\* context.args joined by " "
BroadcastTexts == {"", "hello"}

\* the passwords drawn: the strings of generate_random_string that start
\* with this letter
PasswordLetter == "a"

None == 0

(* ----------------------------------------------------------- the messages *)
JoinPrompt == "Please join our channel to use this bot!"
MainMenu == "Main Menu:"
VerifySuccess == "Verification successful!"
NotJoinedYet == "You haven't joined the channel yet!"
NewEmailText == "Your new email: "
FailedText == "Failed to create email. Please try again."
InboxSoon == "Inbox feature coming soon!"
DeleteSoon == "Delete feature coming soon!"
UsageText == "Usage: /notifyall <message>"
Announcement == "Admin Announcement:"
SentReport == "Notification sent to "

VARIABLES
    users,     \* table 'users': rows in primary-key order
    emails,    \* table 'emails': rows in primary-key order
    now,       \* datetime.utcnow(): every reading is later than the one before
    updates,   \* the number of updates the transport has delivered
    keyboards, \* the inline keyboards the bot has shown so far
    pc,        \* per instance: the line its handler is at, or "idle"
    local,     \* per instance: the local variables of its handler
    log        \* per instance: what its current or last handler has done

vars == <<users, emails, now, updates, keyboards, pc, local, log>>

(* --------------------------------------------------------------- records *)
\* a bug class User could have: is_verified with default=True
UserVerifiedByDefault(telegram_id, join_date) ==
    [telegram_id |-> telegram_id, join_date |-> join_date, is_verified |-> TRUE]

\* class User: id is the row's position in users
User(telegram_id, join_date) ==
    [telegram_id |-> telegram_id, join_date |-> join_date, is_verified |-> FALSE]

\* class EmailAccount: id is the row's position in emails
EmailAccount(user_id, email, pw, created_at) ==
    [user_id |-> user_id, email |-> email, password |-> pw, created_at |-> created_at]

\* the local variables of a handler before it has assigned any
NoLocals ==
    [user |-> None, db_user |-> None, address |-> <<>>, password |-> <<>>,
     response |-> 0, message |-> "", users |-> <<>>, count |-> 0]

\* one message handed to the chat interface
Msg(via, chat, text) ==
    [via |-> via, chat |-> chat, text |-> text, address |-> <<>>, count |-> 0]

\* the record of one handler run: the messages it delivered, its database
\* statements, its provider calls and the status code of POST /accounts, the
\* answer of get_chat_member, whether the user was verified already when
\* that answer was acted on, the chats logger.error of line 172 names, and
\* how it ended
NewLog(handler, u) ==
    [handler |-> handler, user |-> u, sent |-> <<>>, reads |-> 0, writes |-> 0,
     calls |-> <<>>, response |-> 0, chat_member |-> "", was_verified |-> FALSE,
     failed |-> <<>>, status |-> "running", raised |-> ""]

Sent(l, m) == [l EXCEPT !.sent = Append(@, m)]
Read(l) == [l EXCEPT !.reads = @ + 1]
Wrote(l) == [l EXCEPT !.writes = @ + 1]
Called(l, c) == [l EXCEPT !.calls = Append(@, c)]
Answered(l, code) == [l EXCEPT !.response = code]
Asked(l, status) == [l EXCEPT !.chat_member = status]
Marked(l, was) == [l EXCEPT !.was_verified = was]
Failed(l, chat) == [l EXCEPT !.failed = Append(@, chat)]
Returned(l) == [l EXCEPT !.status = "returned"]
Raised(l, exc) == [l EXCEPT !.status = "raised", !.raised = exc]

(* --------------------------------------------------------- pure functions *)
\* a bug generate_random_string could have: range(length - 1)
generate_random_string_short(length) ==
    { [k \in 1..(length - 1) |-> c] : c \in SampleLetters }

\* generate_random_string: every string random.choice can build from the
\* sampled letters, as a sequence of characters
generate_random_string(length) ==
    { [k \in 1..length |-> c] : c \in SampleLetters }

\* session.query(User).filter_by(telegram_id=...).first(): the primary key
\* of the first matching row, or None
RECURSIVE FirstFrom(_, _)
FirstFrom(k, telegram_id) ==
    IF k > Len(users) THEN None
    ELSE IF users[k].telegram_id = telegram_id THEN k
    ELSE FirstFrom(k + 1, telegram_id)

QueryUser(telegram_id) == FirstFrom(1, telegram_id)

\* a bug is_member could have: everyone who has not left counts as a member,
\* a failed call included
is_member_unless_left(status) == status \notin {"left", "kicked"}

\* member.status in ['member', 'administrator', 'creator'], False when
\* get_chat_member raised
is_member(status) == status \in {"member", "administrator", "creator"}

\* the unique=True constraint on users.telegram_id
UsersUnique(telegram_id) ==
    \A k \in 1..Len(users) : users[k].telegram_id # telegram_id

\* a bug the emails table could have: the email column without unique=True
EmailsNotUnique(email) == TRUE

\* the unique=True constraint on emails.email
EmailsUnique(email) ==
    \A k \in 1..Len(emails) : emails[k].email # email

\* session.query(User).filter_by(is_verified=True).all(), as telegram ids
RECURSIVE VerifiedFrom(_)
VerifiedFrom(k) ==
    IF k > Len(users) THEN <<>>
    ELSE IF users[k].is_verified THEN <<users[k].telegram_id>> \o VerifiedFrom(k + 1)
    ELSE VerifiedFrom(k + 1)

\* a bug the query of line 163 could have: no filter_by(is_verified=True)
QueryEveryone == [k \in 1..Len(users) |-> users[k].telegram_id]

QueryVerified == VerifiedFrom(1)

\* the stored verified flag of a user: false when the user has no row
IsVerified(telegram_id) ==
    \E k \in 1..Len(users) : users[k].telegram_id = telegram_id /\ users[k].is_verified

(* ------------------------------------------------------- handler endings *)
\* the handler of instance i ends with log l: its locals die with it
Ended(i, l) ==
    /\ pc' = [pc EXCEPT ![i] = "idle"]
    /\ local' = [local EXCEPT ![i] = NoLocals]
    /\ log' = [log EXCEPT ![i] = l]

\* the handler of instance i goes on at line next
Goto(i, next, l) ==
    /\ pc' = [pc EXCEPT ![i] = next]
    /\ log' = [log EXCEPT ![i] = l]

(* ------------------------------------------------------------------ Init *)
Init ==
    /\ users = <<>>
    /\ emails = <<>>
    /\ now = 0
    /\ updates = 0
    /\ keyboards = {}
    /\ pc = [i \in Instances |-> "idle"]
    /\ local = [i \in Instances |-> NoLocals]
    /\ log = [i \in Instances |-> Returned(NewLog("none", None))]

\* the transport hands an update to the idle instance i
Dispatch(i) ==
    /\ pc[i] = "idle"
    /\ updates < MaxUpdates
    /\ updates' = updates + 1

\* lines 78-79 and 104-108: the keyboards, by what their buttons call back.
\* No handler is registered with a chat filter (lines 181-186), so a button
\* shown in a group chat can be pressed by every user who sees it.
JoinKeyboard == "verify"
MenuKeyboard == "new_email, check_inbox, delete_email"

\* the transport hands a callback query to the idle instance i: a button of
\* keyboard k has been pressed, so that keyboard has been shown
Callback(i, k) ==
    /\ Dispatch(i)
    /\ k \in keyboards

(* ----------------------------------------------------------------- start *)
\* lines 63-66: /start arrives from user u;
\* db_user = session.query(User).filter_by(telegram_id=user.id).first()
start(i, u, avail) ==
    /\ Dispatch(i)
    /\ IF avail
       THEN /\ local' = [local EXCEPT ![i] = [NoLocals EXCEPT !.user = u,
                                                              !.db_user = QueryUser(u)]]
            /\ Goto(i, "start_68", Read(NewLog("start", u)))
       ELSE Ended(i, Raised(Read(NewLog("start", u)), "OperationalError"))
    /\ UNCHANGED <<users, emails, now, keyboards>>

\* lines 68-71: if not db_user: add User(telegram_id=user.id) and commit
start_insert(i, avail) ==
    /\ pc[i] = "start_68"
    /\ IF local[i].db_user # None
       THEN /\ Goto(i, "start_73", log[i])
            /\ UNCHANGED <<users, now, local>>
       ELSE IF ~avail
       THEN /\ Ended(i, Raised(Wrote(log[i]), "OperationalError"))
            /\ UNCHANGED <<users, now>>
       ELSE IF ~UsersUnique(local[i].user)
       THEN /\ Ended(i, Raised(Wrote(log[i]), "IntegrityError"))
            /\ UNCHANGED <<users, now>>
       ELSE /\ users' = Append(users, User(local[i].user, now))
            /\ now' = now + 1
            /\ local' = [local EXCEPT ![i].db_user = Len(users) + 1]
            /\ Goto(i, "start_73", Wrote(log[i]))
    /\ UNCHANGED <<emails, updates, keyboards>>

\* line 73 and is_member, lines 55-61; the else branch, lines 77-84
start_is_member(i, status) ==
    /\ pc[i] = "start_73"
    /\ IF is_member(status)
       THEN /\ Goto(i, "start_74", Asked(log[i], status))
            /\ UNCHANGED <<local, keyboards>>
       ELSE /\ Ended(i, Returned(Sent(Marked(Asked(log[i], status),
                                             IsVerified(local[i].user)),
                                      Msg("reply_text", local[i].user, JoinPrompt))))
            /\ keyboards' = keyboards \cup {JoinKeyboard}
    /\ UNCHANGED <<users, emails, now, updates>>

\* a bug the commit could have: it is left out and the flag is not stored
MarkVerifiedLost(k) == users

\* a bug the commit could have: the flag is flipped instead of set
MarkVerifiedFlipped(k) == [users EXCEPT ![k].is_verified = ~@]

\* a bug the commit could have: the row's join_date is refreshed on update
MarkVerifiedRejoined(k) == [users EXCEPT ![k].is_verified = TRUE, ![k].join_date = now]

\* db_user.is_verified = True; session.commit()
MarkVerified(k) == [users EXCEPT ![k].is_verified = TRUE]

\* lines 74-76 and show_main_menu, lines 103-112 (update.message is set)
start_verified(i, avail) ==
    /\ pc[i] = "start_74"
    /\ IF avail
       THEN /\ users' = MarkVerified(local[i].db_user)
            /\ Ended(i, Returned(Sent(
                    Marked(Wrote(log[i]), users[local[i].db_user].is_verified),
                    Msg("reply_text", local[i].user, MainMenu))))
            /\ keyboards' = keyboards \cup {MenuKeyboard}
       ELSE /\ Ended(i, Raised(Wrote(log[i]), "OperationalError"))
            /\ UNCHANGED <<users, keyboards>>
    /\ UNCHANGED <<emails, now, updates>>

(* ---------------------------------------------------------------- verify *)
\* lines 86-91: the "verify" button is pressed by user u;
\* db_user = session.query(User).filter_by(telegram_id=user.id).first()
verify(i, u, avail) ==
    /\ Callback(i, JoinKeyboard)
    /\ IF avail
       THEN /\ local' = [local EXCEPT ![i] = [NoLocals EXCEPT !.user = u,
                                                              !.db_user = QueryUser(u)]]
            /\ Goto(i, "verify_93", Read(NewLog("verify", u)))
       ELSE Ended(i, Raised(Read(NewLog("verify", u)), "OperationalError"))
    /\ UNCHANGED <<users, emails, now, keyboards>>

\* line 93 and is_member, lines 55-61; the else branch, lines 98-101
verify_is_member(i, status) ==
    /\ pc[i] = "verify_93"
    /\ IF is_member(status)
       THEN /\ Goto(i, "verify_94", Asked(log[i], status))
            /\ UNCHANGED local
       ELSE Ended(i, Returned(Sent(Marked(Asked(log[i], status), IsVerified(local[i].user)),
                                   Msg("edit_message_text", local[i].user, NotJoinedYet))))
    /\ UNCHANGED <<users, emails, now, updates, keyboards>>

\* lines 94-97 and show_main_menu, lines 103-114 (a query has no message);
\* db_user is None when the query found no row
verify_verified(i, avail) ==
    /\ pc[i] = "verify_94"
    /\ IF local[i].db_user = None
       THEN /\ Ended(i, Raised(log[i], "AttributeError"))
            /\ UNCHANGED <<users, keyboards>>
       ELSE IF ~avail
       THEN /\ Ended(i, Raised(Wrote(log[i]), "OperationalError"))
            /\ UNCHANGED <<users, keyboards>>
       ELSE /\ users' = MarkVerified(local[i].db_user)
            /\ Ended(i, Returned(Sent(Sent(
                    Marked(Wrote(log[i]), users[local[i].db_user].is_verified),
                    Msg("edit_message_text", local[i].user, VerifySuccess)),
                    Msg("edit_message_text", local[i].user, MainMenu))))
            /\ keyboards' = keyboards \cup {MenuKeyboard}
    /\ UNCHANGED <<emails, now, updates>>

(* ------------------------------------------------------------- new_email *)
\* f"{generate_random_string()}@{domain}"
Address(local_part, domain) == local_part \o <<"@">> \o domain

\* lines 116-125: the "new_email" button is pressed by user u; GET /domains
\* answers r; the first domain, a random local part and a random password
new_email(i, u, r, local_part, pw) ==
    /\ Callback(i, MenuKeyboard)
    /\ IF r.hung
       THEN /\ local' = [local EXCEPT ![i] = [NoLocals EXCEPT !.user = u]]
            /\ Goto(i, "hung_122", Called(NewLog("new_email", u), "GET /domains"))
       ELSE IF r.raised
       THEN Ended(i, Raised(Called(NewLog("new_email", u), "GET /domains"),
                            "RequestException"))
       ELSE IF r.member = <<>>
       THEN Ended(i, Raised(Called(NewLog("new_email", u), "GET /domains"), "IndexError"))
       ELSE /\ local' = [local EXCEPT ![i] =
                            [NoLocals EXCEPT !.user = u,
                                             !.address = Address(local_part, r.member[1]),
                                             !.password = pw]]
            /\ Goto(i, "new_128", Called(NewLog("new_email", u), "GET /domains"))
    /\ UNCHANGED <<users, emails, now, keyboards>>

\* lines 128-131: POST /accounts answers with status code (0: it raises)
new_email_create(i, code) ==
    /\ pc[i] = "new_128"
    /\ IF code = NoAnswer
       THEN /\ Goto(i, "hung_128", Called(log[i], "POST /accounts"))
            /\ UNCHANGED local
       ELSE IF code = 0
       THEN Ended(i, Raised(Called(log[i], "POST /accounts"), "RequestException"))
       ELSE /\ local' = [local EXCEPT ![i].response = code]
            /\ Goto(i, "new_133", Answered(Called(log[i], "POST /accounts"), code))
    /\ UNCHANGED <<users, emails, now, updates, keyboards>>

\* a bug line 133 could have: any answer of the provider counts as success
CreatedOnAnyAnswer(code) == code # 0

\* line 133: response.status_code == 201
Created(code) == code = 201

\* lines 134-137: session.add(EmailAccount(...)); session.commit()
InsertEmail(row) == Append(emails, row)

\* a bug lines 140-141 could have: on a failure a new address is drawn and
\* POST /accounts is called again
new_email_persist_retrying(i, avail) ==
    /\ pc[i] = "new_133"
    /\ IF local[i].response = 201
       THEN /\ emails' = InsertEmail(EmailAccount(local[i].user, local[i].address,
                                                  local[i].password, now))
            /\ now' = now + 1
            /\ Ended(i, Returned(Sent(Wrote(log[i]),
                   [Msg("edit_message_text", local[i].user, NewEmailText)
                       EXCEPT !.address = local[i].address])))
       ELSE /\ \E local_part \in generate_random_string(10) :
                 local' = [local EXCEPT ![i].address = Address(local_part, DomainY)]
            /\ Goto(i, "new_128", log[i])
            /\ UNCHANGED <<emails, now>>
    /\ UNCHANGED <<users, updates, keyboards>>

\* lines 133-141: on 201 the record is stored and the address shown, on any
\* other status the failure message is shown
new_email_persist(i, avail) ==
    /\ pc[i] = "new_133"
    /\ IF Created(local[i].response)
       THEN IF ~avail
            THEN /\ Ended(i, Raised(Wrote(log[i]), "OperationalError"))
                 /\ UNCHANGED <<emails, now>>
            ELSE IF ~EmailsUnique(local[i].address)
            THEN /\ Ended(i, Raised(Wrote(log[i]), "IntegrityError"))
                 /\ UNCHANGED <<emails, now>>
            ELSE /\ emails' = InsertEmail(EmailAccount(local[i].user, local[i].address,
                                                       local[i].password, now))
                 /\ now' = now + 1
                 /\ Ended(i, Returned(Sent(Wrote(log[i]),
                        [Msg("edit_message_text", local[i].user, NewEmailText)
                            EXCEPT !.address = local[i].address])))
       ELSE /\ Ended(i, Returned(Sent(log[i],
                        Msg("edit_message_text", local[i].user, FailedText))))
            /\ UNCHANGED <<emails, now>>
    /\ UNCHANGED <<users, updates, keyboards>>

(* ------------------------------------------- check_inbox and delete_email *)
\* lines 143-146
check_inbox(i, u) ==
    /\ Callback(i, MenuKeyboard)
    /\ Ended(i, Returned(Sent(NewLog("check_inbox", u),
                              Msg("edit_message_text", u, InboxSoon))))
    /\ UNCHANGED <<users, emails, now, keyboards>>

\* a bug delete_email could have: the stub removes the user's rows
delete_email_dropping(i, u) ==
    /\ Callback(i, MenuKeyboard)
    /\ Ended(i, Returned(Sent(NewLog("delete_email", u),
                              Msg("edit_message_text", u, DeleteSoon))))
    /\ emails' = SelectSeq(emails, LAMBDA row : row.user_id # u)
    /\ UNCHANGED <<users, now, keyboards>>

\* lines 148-151
delete_email(i, u) ==
    /\ Callback(i, MenuKeyboard)
    /\ Ended(i, Returned(Sent(NewLog("delete_email", u),
                              Msg("edit_message_text", u, DeleteSoon))))
    /\ UNCHANGED <<users, emails, now, keyboards>>

(* ------------------------------------------------------------ notify_all *)
\* a bug line 154 could have: the comparison inverted
NotOperatorInverted(u) == Str(u) = ADMIN_ID

\* line 154: str(update.effective_user.id) != ADMIN_ID
NotOperator(u) == Str(u) # ADMIN_ID

\* lines 153-160: /notifyall text arrives from user u
notify_all(i, u, text) ==
    /\ Dispatch(i)
    /\ IF NotOperator(u)
       THEN Ended(i, Returned(NewLog("notify_all", u)))
       ELSE IF text = ""
       THEN Ended(i, Returned(Sent(NewLog("notify_all", u),
                                   Msg("reply_text", u, UsageText))))
       ELSE /\ local' = [local EXCEPT ![i] = [NoLocals EXCEPT !.user = u, !.message = text]]
            /\ Goto(i, "notify_162", NewLog("notify_all", u))
    /\ UNCHANGED <<users, emails, now, keyboards>>

\* lines 162-166: users = session.query(User).filter_by(is_verified=True).all()
notify_all_query(i, avail) ==
    /\ pc[i] = "notify_162"
    /\ IF avail
       THEN /\ local' = [local EXCEPT ![i].users = QueryVerified, ![i].count = 0]
            /\ Goto(i, "notify_167", Read(log[i]))
       ELSE Ended(i, Raised(Read(log[i]), "OperationalError"))
    /\ UNCHANGED <<users, emails, now, updates, keyboards>>

\* lines 167-172: one turn of the loop; send_message delivers or raises
notify_all_send(i, delivered) ==
    /\ pc[i] = "notify_167"
    /\ local[i].users # <<>>
    /\ IF delivered
       THEN /\ local' = [local EXCEPT ![i].users = Tail(@), ![i].count = @ + 1]
            /\ Goto(i, "notify_167",
                    Sent(log[i], Msg("send_message", Head(local[i].users), Announcement)))
       ELSE /\ local' = [local EXCEPT ![i].users = Tail(@)]
            /\ Goto(i, "notify_167", Failed(log[i], Head(local[i].users)))
    /\ UNCHANGED <<users, emails, now, updates, keyboards>>

\* line 174: the loop is over
notify_all_report(i) ==
    /\ pc[i] = "notify_167"
    /\ local[i].users = <<>>
    /\ Ended(i, Returned(Sent(log[i],
            [Msg("reply_text", local[i].user, SentReport) EXCEPT !.count = local[i].count])))
    /\ UNCHANGED <<users, emails, now, updates, keyboards>>

(* ------------------------------------------------------------------ Next *)
Next ==
    \/ \E i \in Instances, u \in TelegramIds, avail \in BOOLEAN : start(i, u, avail)
    \/ \E i \in Instances, avail \in BOOLEAN : start_insert(i, avail)
    \/ \E i \in Instances, status \in ChatMemberStatuses : start_is_member(i, status)
    \/ \E i \in Instances, avail \in BOOLEAN : start_verified(i, avail)
    \/ \E i \in Instances, u \in TelegramIds, avail \in BOOLEAN : verify(i, u, avail)
    \/ \E i \in Instances, status \in ChatMemberStatuses : verify_is_member(i, status)
    \/ \E i \in Instances, avail \in BOOLEAN : verify_verified(i, avail)
    \/ \E i \in Instances, u \in TelegramIds, r \in DomainResponses,
          local_part \in generate_random_string(10),
          pw \in {p \in generate_random_string(16) : p[1] = PasswordLetter} :
            new_email(i, u, r, local_part, pw)
    \/ \E i \in Instances, code \in StatusCodes : new_email_create(i, code)
    \/ \E i \in Instances, avail \in BOOLEAN : new_email_persist(i, avail)
    \/ \E i \in Instances, u \in TelegramIds : check_inbox(i, u)
    \/ \E i \in Instances, u \in TelegramIds : delete_email(i, u)
    \/ \E i \in Instances, u \in TelegramIds, text \in BroadcastTexts : notify_all(i, u, text)
    \/ \E i \in Instances, avail \in BOOLEAN : notify_all_query(i, avail)
    \/ \E i \in Instances, delivered \in BOOLEAN : notify_all_send(i, delivered)
    \/ \E i \in Instances : notify_all_report(i)

Spec == Init /\ [][Next]_vars

(* ================================================================ claims *)
Members == {"member", "administrator", "creator"}
FailureMsg(u) == Msg("edit_message_text", u, FailedText)
Rows(telegram_id) == {k \in 1..Len(users) : users[k].telegram_id = telegram_id}

\* C1 (as claimed): a new_email of a user whose stored verified flag is false,
\* or who has no row, makes no provider call and stores nothing.
C1_UnverifiedRequestRejected ==
    \A i \in Instances :
        (log[i].handler = "new_email" /\ ~IsVerified(log[i].user)) =>
            (log[i].calls = <<>> /\ log[i].writes = 0)

C3_ConcurrentStartsConverge ==
    \A i, j \in Instances :
        (/\ i # j
         /\ pc[i] = "idle" /\ pc[j] = "idle"
         /\ log[i].handler = "start" /\ log[j].handler = "start"
         /\ log[i].user = log[j].user
         /\ log[i].raised # "OperationalError" /\ log[j].raised # "OperationalError") =>
            /\ Cardinality(Rows(log[i].user)) = 1
            /\ log[i].status = "returned" /\ log[j].status = "returned"

\* C4: a verified flag becomes true only in the commit of a start or verify
\* whose get_chat_member answered member, administrator or creator; a start or
\* verify that got any other answer, or none, leaves the users table as it is
\* and ends by showing the join prompt or the not-yet-joined message.
C4_VerifiedOnlyByMember ==
    [][/\ \A k \in 1..Len(users') :
            (users'[k].is_verified /\ (k > Len(users) \/ ~users[k].is_verified)) =>
                \E i \in Instances :
                    /\ pc[i] \in {"start_74", "verify_94"} /\ pc'[i] = "idle"
                    /\ local[i].db_user = k
                    /\ log[i].chat_member \in Members
       /\ \A i \in Instances :
            (pc[i] \in {"start_73", "verify_93"} /\ pc'[i] # pc[i]
                /\ log'[i].chat_member \notin Members) =>
                /\ users' = users
                /\ pc'[i] = "idle" /\ log'[i].status = "returned"
                /\ log'[i].sent =
                      <<IF log'[i].handler = "start"
                        THEN Msg("reply_text", log'[i].user, JoinPrompt)
                        ELSE Msg("edit_message_text", log'[i].user, NotJoinedYet)>>]_vars

C4_Witness ==
    \E i, j \in Instances :
        /\ pc[i] = "idle" /\ log[i].handler = "verify" /\ log[i].status = "returned"
        /\ log[i].chat_member = "administrator" /\ IsVerified(log[i].user)
        /\ pc[j] = "idle" /\ log[j].handler = "start" /\ log[j].status = "returned"
        /\ log[j].chat_member = "error" /\ ~IsVerified(log[j].user)

\* C5: no step removes a row of the users table or changes whose row it is,
\* and no step turns a verified flag from true to false.
C5_VerifiedMonotonic ==
    [][/\ Len(users') >= Len(users)
       /\ \A k \in 1..Len(users) :
            /\ users'[k].telegram_id = users[k].telegram_id
            /\ users[k].is_verified => users'[k].is_verified]_vars

C5_Witness ==
    \E i \in Instances :
        /\ pc[i] = "idle" /\ log[i].handler \in {"start", "verify"}
        /\ log[i].chat_member \in {"left", "error"}
        /\ log[i].was_verified /\ IsVerified(log[i].user)

\* C6: the commit that marks an already verified row leaves the users table as
\* it is, a start that found a row adds none, and no step changes a join_date.
C6_MarkVerifiedIdempotent ==
    [][/\ \A k \in 1..Len(users) :
            k <= Len(users') /\ users'[k].join_date = users[k].join_date
       /\ \A i \in Instances :
            /\ (pc[i] \in {"start_74", "verify_94"} /\ pc'[i] # pc[i]
                    /\ local[i].db_user # None
                    /\ users[local[i].db_user].is_verified) =>
                  (users' = users /\ users'[local[i].db_user].is_verified)
            /\ (pc[i] = "start_68" /\ pc'[i] # pc[i] /\ local[i].db_user # None) =>
                  users' = users]_vars

\* a start and a verify of one user have both marked the user's row: the one
\* that committed second marked a verified row
C6_Witness ==
    \E i, j \in Instances :
        /\ pc[i] = "idle" /\ log[i].handler = "start"
        /\ pc[j] = "idle" /\ log[j].handler = "verify"
        /\ log[i].user = log[j].user
        /\ log[i].status = "returned" /\ log[i].chat_member \in Members
        /\ log[j].status = "returned" /\ log[j].chat_member \in Members

\* C7: a notify_all of a user whose id is not the operator's has ended at once:
\* it delivered nothing, read nothing and wrote nothing.
C7_NonOperatorBroadcastNoOp ==
    \A i \in Instances :
        (log[i].handler = "notify_all" /\ Str(log[i].user) # ADMIN_ID) =>
            /\ pc[i] = "idle"
            /\ log[i] = Returned(NewLog("notify_all", log[i].user))

C7_Witness ==
    \E i \in Instances :
        /\ log[i].handler = "notify_all" /\ Str(log[i].user) # ADMIN_ID
        /\ QueryVerified # <<>>

\* C8 (as claimed): no two new_email handlers of the same verified user are
\* both between their POST /accounts and the end of their commit.
C8_RequestsSerializedPerUser ==
    \A i, j \in Instances :
        (/\ i # j
         /\ pc[i] \in {"new_128", "new_133"} /\ pc[j] \in {"new_128", "new_133"}
         /\ IsVerified(local[i].user)) =>
            local[i].user # local[j].user

\* C9: no two rows of the emails table carry the same email.
C9_AddressUnique ==
    \A k1, k2 \in 1..Len(emails) : emails[k1].email = emails[k2].email => k1 = k2

C9_Witness ==
    \E i \in Instances :
        /\ log[i].handler = "new_email" /\ log[i].raised = "IntegrityError"
        /\ Len(emails) > 0

\* C10 (as claimed): a new_email whose POST /accounts was answered 201 and
\* whose commit failed has shown the failure message to the user.
C10_StorageFailureShown ==
    \A i \in Instances :
        (log[i].handler = "new_email" /\ log[i].response = 201
            /\ log[i].status = "raised") =>
            log[i].sent = <<FailureMsg(log[i].user)>>

\* the steps the handler running on instance i can take
HandlerStep(i) ==
    \/ \E avail \in BOOLEAN : start_insert(i, avail)
    \/ \E status \in ChatMemberStatuses : start_is_member(i, status)
    \/ \E avail \in BOOLEAN : start_verified(i, avail)
    \/ \E status \in ChatMemberStatuses : verify_is_member(i, status)
    \/ \E avail \in BOOLEAN : verify_verified(i, avail)
    \/ \E code \in StatusCodes : new_email_create(i, code)
    \/ \E avail \in BOOLEAN : new_email_persist(i, avail)
    \/ \E avail \in BOOLEAN : notify_all_query(i, avail)
    \/ \E delivered \in BOOLEAN : notify_all_send(i, delivered)
    \/ notify_all_report(i)

\* C11 (as claimed): every handler that has not ended can take a step: no
\* external call leaves it waiting for ever.
C11_ExternalCallsResolve ==
    \A i \in Instances : pc[i] # "idle" => ENABLED HandlerStep(i)

Lowercase ==
    {"a", "b", "c", "d", "e", "f", "g", "h", "i", "j", "k", "l", "m",
     "n", "o", "p", "q", "r", "s", "t", "u", "v", "w", "x", "y", "z"}
AddressMsg(u, a) == [Msg("edit_message_text", u, NewEmailText) EXCEPT !.address = a]
EndsWith(str, tail) ==
    Len(str) >= Len(tail) /\ SubSeq(str, Len(str) - Len(tail) + 1, Len(str)) = tail

\* C12: the steps of the scenario. A start that found no row stores one for
\* the user with is_verified false; a start that is denied leaves the row as
\* it is and shows the join prompt with the Verify button; a verify that
\* commits leaves the user's row verified and shows the menu; a new_email whose
\* POST was answered 201 and that commits adds exactly one row, owned by the
\* user, whose email ends in @ and the first listed domain, and shows it.
C12_EndToEnd ==
    [][\A i \in Instances :
        /\ (pc[i] = "start_68" /\ pc'[i] = "start_73" /\ local[i].db_user = None) =>
              users' = Append(users, [telegram_id |-> local[i].user,
                                      join_date |-> now, is_verified |-> FALSE])
        /\ (pc[i] = "start_73" /\ pc'[i] = "idle") =>
              /\ Rows(local[i].user) # {}
              /\ users' = users
              /\ log'[i].sent = <<Msg("reply_text", local[i].user, JoinPrompt)>>
              /\ JoinKeyboard \in keyboards'
        /\ (pc[i] = "verify_94" /\ pc'[i] = "idle" /\ log'[i].status = "returned") =>
              /\ users'[local[i].db_user].telegram_id = local[i].user
              /\ users'[local[i].db_user].is_verified
              /\ log'[i].sent = <<Msg("edit_message_text", local[i].user, VerifySuccess),
                                  Msg("edit_message_text", local[i].user, MainMenu)>>
        /\ (pc[i] = "new_133" /\ pc'[i] = "idle" /\ local[i].response = 201
                /\ log'[i].status = "returned") =>
              /\ emails' = Append(emails, emails'[Len(emails')])
              /\ emails'[Len(emails')].user_id = local[i].user
              /\ emails'[Len(emails')].email = local[i].address
              /\ EndsWith(local[i].address, <<"@">> \o DomainY)
              /\ Cardinality({k \in 1..Len(emails') :
                                emails'[k].email = local[i].address}) = 1
              /\ log'[i].sent = <<AddressMsg(local[i].user, local[i].address)>>]_vars

C12_Witness ==
    \E i, j \in Instances :
        /\ pc[i] = "idle" /\ log[i].handler = "verify" /\ log[i].status = "returned"
        /\ log[i].chat_member = "member" /\ ~log[i].was_verified
        /\ pc[j] = "idle" /\ log[j].handler = "new_email" /\ log[j].status = "returned"
        /\ log[j].user = log[i].user /\ log[j].response = 201
        /\ Len(emails) = 1 /\ emails[1].user_id = log[i].user
        /\ log[j].sent = <<AddressMsg(log[j].user, emails[1].email)>>

\* C13: the query of an operator's notify_all lists every verified user once
\* and no other user; every turn of the loop takes the first user off the list
\* and either delivers the announcement to that user and counts it or logs
\* the failure and goes on; the report is made when the list is empty and
\* names the number of announcements delivered.
C13_BroadcastBestEffort ==
    [][\A i \in Instances :
        /\ (pc[i] = "notify_162" /\ pc'[i] = "notify_167") =>
              \A u \in TelegramIds :
                  Cardinality({k \in 1..Len(local'[i].users) : local'[i].users[k] = u})
                      = IF IsVerified(u) THEN 1 ELSE 0
        /\ (pc[i] = "notify_167" /\ pc'[i] = "notify_167" /\ local'[i] # local[i]) =>
              /\ local'[i].users = Tail(local[i].users)
              /\ \/ /\ log'[i] = Sent(log[i], Msg("send_message", Head(local[i].users),
                                                 Announcement))
                    /\ local'[i].count = local[i].count + 1
                 \/ /\ log'[i] = Failed(log[i], Head(local[i].users))
                    /\ local'[i].count = local[i].count
        /\ (pc[i] = "notify_167" /\ pc'[i] = "idle") =>
              /\ local[i].users = <<>>
              /\ \A k \in 1..Len(log[i].sent) : log[i].sent[k].via = "send_message"
              /\ log'[i].sent = Append(log[i].sent,
                    [Msg("reply_text", local[i].user, SentReport)
                        EXCEPT !.count = Len(log[i].sent)])]_vars

C13_Witness ==
    \E i \in Instances :
        /\ pc[i] = "idle" /\ log[i].handler = "notify_all" /\ log[i].status = "returned"
        /\ log[i].failed = <<1>>
        /\ Len(log[i].sent) = 2 /\ log[i].sent[1].chat = 2 /\ log[i].sent[2].count = 1

WellFormed(a, p) ==
    /\ Len(a) = 10 + 1 + Len(DomainY)
    /\ \A k \in 1..10 : a[k] \in Lowercase
    /\ a[11] = "@"
    /\ SubSeq(a, 12, Len(a)) = DomainY
    /\ Len(p) = 16
    /\ \A k \in 1..16 : p[k] \in Lowercase

\* C14: every address a new_email has built, and every stored one, is 10
\* lowercase letters, @, and the first listed domain; every password is 16
\* lowercase letters.
C14_GeneratedStrings ==
    /\ \A i \in Instances :
          pc[i] \in {"new_128", "hung_128", "new_133"} =>
              WellFormed(local[i].address, local[i].password)
    /\ \A k \in 1..Len(emails) : WellFormed(emails[k].email, emails[k].password)

C14_Witness ==
    /\ Len(emails) = 1
    /\ \E i \in Instances : pc[i] = "new_128" /\ local[i].address # emails[1].email

Steps(i) == pc'[i] # pc[i] \/ log'[i] # log[i]

\* C16: a row is added to users only by the insert of a start, a verified flag
\* changes only in the commit of a start or verify, emails changes only by the
\* commit of a new_email, which adds one row; no step of new_email,
\* notify_all, check_inbox or delete_email changes users, and no step of
\* start, verify, notify_all, check_inbox or delete_email changes emails.
C16_Frame ==
    [][/\ Len(users') # Len(users) =>
            \E i \in Instances : pc[i] = "start_68" /\ Steps(i)
       /\ users' # users =>
            \E i \in Instances : pc[i] \in {"start_68", "start_74", "verify_94"} /\ Steps(i)
       /\ (\E k \in 1..Len(users) :
                k <= Len(users') /\ users'[k].is_verified # users[k].is_verified) =>
            \E i \in Instances : pc[i] \in {"start_74", "verify_94"} /\ Steps(i)
       /\ emails' # emails =>
            /\ \E i \in Instances : pc[i] = "new_133" /\ Steps(i)
            /\ Len(emails') = Len(emails) + 1
            /\ SubSeq(emails', 1, Len(emails)) = emails
       /\ \A i \in Instances :
            /\ (Steps(i) /\ log'[i].handler \in
                    {"new_email", "notify_all", "check_inbox", "delete_email"}) =>
                  users' = users
            /\ (Steps(i) /\ log'[i].handler \in
                    {"start", "verify", "notify_all", "check_inbox", "delete_email"}) =>
                  emails' = emails]_vars

C16_Witness ==
    \E i \in Instances :
        /\ log[i].handler = "delete_email" /\ log[i].status = "returned"
        /\ Len(emails) = 1 /\ emails[1].user_id = log[i].user
        /\ IsVerified(log[i].user)

\* C17 (as claimed): a new_email that ended after GET /domains alone, the
\* listing having failed or been empty, has shown the failure message.
C17_ListingFailureShown ==
    \A i \in Instances :
        (log[i].handler = "new_email" /\ pc[i] = "idle"
            /\ log[i].calls = <<"GET /domains">>) =>
            /\ log[i].status = "returned"
            /\ log[i].sent = <<FailureMsg(log[i].user)>>

\* C18: a new_email calls GET /domains once and POST /accounts at most once
\* after it, and commits at most once; after an answer other than 201 it has
\* committed nothing.
C18_NoRetry ==
    \A i \in Instances :
        log[i].handler = "new_email" =>
            /\ log[i].calls \in {<<"GET /domains">>, <<"GET /domains", "POST /accounts">>}
            /\ log[i].writes <= 1
            /\ log[i].response # 201 => log[i].writes = 0

C18_Witness ==
    \E i \in Instances :
        /\ pc[i] = "idle" /\ log[i].handler = "new_email"
        /\ log[i].response = 422 /\ log[i].status = "returned"
        /\ log[i].calls = <<"GET /domains", "POST /accounts">>
        /\ Len(log[i].sent) = 1

\* C19 (as claimed): the user_id of every row of emails is the telegram_id of
\* a row of users whose is_verified is true.
C19_OwnerIsVerifiedUser ==
    \A k \in 1..Len(emails) : IsVerified(emails[k].user_id)

\* C20 (as claimed): a verify that holds its query's result holds a row, and
\* no verify ends in the AttributeError of line 94.
C20_VerifyFindsRecord ==
    \A i \in Instances :
        /\ pc[i] \in {"verify_93", "verify_94"} => local[i].db_user # None
        /\ log[i].handler = "verify" => log[i].raised # "AttributeError"

====
